---- MODULE Spec2Model ----
(***************************************************************************)
(* A model of batch_exporter.py: the diagram tokenizer (iter_diagrams),    *)
(* the payload encoder (_encode_bytes), the export transport (export_png), *)
(* the batch orchestrator (run_exports), and the container lifecycle       *)
(* (docker_plantuml, _wait_for_server), driven by main.                    *)
(*                                                                         *)
(* Strings are sequences of one-character strings; bytes are sequences of  *)
(* naturals below 256.  Python's 0-based list indices are 1-based here.    *)
(***************************************************************************)
EXTENDS Integers, Sequences, FiniteSets, TLC

(***************************************************************************)
(* Bounds of the model.                                                    *)
(***************************************************************************)
\* longest source document, in lines, given to the tokenizer alone
MaxLines == 4
\* largest number of diagram blocks in a source document given to a batch run
MaxBlocks == 3
\* longest byte sequence given to the encoder
MaxBytes == 4

(***************************************************************************)
(* Characters and strings.                                                 *)
(***************************************************************************)
\* Python's None, and an optional value: absent, or present as Some(x)
None == "None"

Nothing == <<>>

Some(x) == <<x>>

The(o) == o[1]

Whitespace == {" ", "\t", "\n", "\r"}

LineBreaks == {"\n", "\r"}

AsciiUpper == {"A", "B", "M", "S", "T", "U", "L", "R", "P", "N", "G"}

AsciiLower ==
    {"a", "b", "d", "e", "g", "i", "l", "m", "n", "r", "s", "t", "u", "x"}

Digits == {"0", "1", "2", "3", "4", "5", "6", "7", "8", "9"}

\* characters outside ASCII that Python's Unicode-aware \w matches
UnicodeWord == {"é"}

\* str.lower() on the characters of the model's alphabet (re.IGNORECASE)
Lower(c) ==
    CASE c = "A" -> "a" [] c = "B" -> "b" [] c = "M" -> "m" [] c = "S" -> "s"
      [] c = "T" -> "t" [] c = "U" -> "u" [] c = "L" -> "l" [] c = "R" -> "r"
      [] c = "P" -> "p" [] c = "N" -> "n" [] c = "G" -> "g"
      [] OTHER -> c

LowerAll(s) == [k \in 1..Len(s) |-> Lower(s[k])]

\* s[k:] of Python for a 1-based k
Drop(s, k) == SubSeq(s, k, Len(s))

\* s.startswith(p)
StartsWith(s, p) == Len(s) >= Len(p) /\ SubSeq(s, 1, Len(p)) = p

\* p in s (substring test)
Contains(s, p) ==
    \E k \in 1..(Len(s) - Len(p) + 1) : SubSeq(s, k, k + Len(p) - 1) = p

RECURSIVE LStrip(_)
LStrip(s) ==
    IF s # <<>> /\ Head(s) \in Whitespace THEN LStrip(Tail(s)) ELSE s

RECURSIVE RStrip(_)
RStrip(s) ==
    IF s # <<>> /\ s[Len(s)] \in Whitespace
    THEN RStrip(SubSeq(s, 1, Len(s) - 1))
    ELSE s

\* str.strip()
Strip(s) == RStrip(LStrip(s))

\* the longest prefix of s made of characters of (outside of) the set cs
RECURSIVE TakeWhileIn(_, _)
TakeWhileIn(s, cs) ==
    IF s # <<>> /\ Head(s) \in cs
    THEN <<Head(s)>> \o TakeWhileIn(Tail(s), cs)
    ELSE <<>>

RECURSIVE TakeWhileNotIn(_, _)
TakeWhileNotIn(s, cs) ==
    IF s # <<>> /\ Head(s) \notin cs
    THEN <<Head(s)>> \o TakeWhileNotIn(Tail(s), cs)
    ELSE <<>>

\* str.splitlines(): lines are ended by \n, \r or \r\n; no line after the
\* last line break
RECURSIVE SplitLines(_)
SplitLines(text) ==
    IF text = <<>> THEN <<>>
    ELSE LET line == TakeWhileNotIn(text, LineBreaks)
             rest == Drop(text, Len(line) + 1)
             after ==
                 IF rest = <<>> THEN <<>>
                 ELSE IF Len(rest) >= 2 /\ rest[1] = "\r" /\ rest[2] = "\n"
                 THEN Drop(rest, 3)
                 ELSE Drop(rest, 2)
         IN  <<line>> \o SplitLines(after)

\* "\n".join(buf) + "\n"
RECURSIVE JoinLines(_)
JoinLines(buf) ==
    IF buf = <<>> THEN <<"\n">>
    ELSE IF Len(buf) = 1 THEN buf[1] \o <<"\n">>
    ELSE buf[1] \o <<"\n">> \o JoinLines(Tail(buf))

(***************************************************************************)
(* Source parsing: _START_RE, _END_DIRECTIVE, iter_diagrams.               *)
(***************************************************************************)
START_WORD == <<"@", "s", "t", "a", "r", "t", "u", "m", "l">>

END_DIRECTIVE == <<"@", "e", "n", "d", "u", "m", "l">>

\* _START_RE.match(s): the pattern @startuml(?:\s+([^\s]+))? anchored at
\* the start of s, case-insensitive.  The result is None (no match) or a
\* match object whose group1 is the captured name, absent when the
\* optional group took no part in the match.
START_RE_match(s) ==
    IF ~StartsWith(LowerAll(s), START_WORD) THEN Nothing
    ELSE LET rest == Drop(s, Len(START_WORD) + 1)
             ws   == TakeWhileIn(rest, Whitespace)
             arg  == TakeWhileNotIn(Drop(rest, Len(ws) + 1), Whitespace)
         IN  Some([group1 |-> IF ws # <<>> /\ arg # <<>>
                              THEN Some(arg) ELSE Nothing])

DigitChars == <<"0", "1", "2", "3", "4", "5", "6", "7", "8", "9">>

\* str(n) for a natural n
RECURSIVE Decimal(_)
Decimal(n) ==
    IF n < 10 THEN <<DigitChars[n + 1]>>
    ELSE Decimal(n \div 10) \o <<DigitChars[(n % 10) + 1]>>

\* f"{n:02}"
Pad02(n) == IF n < 10 THEN <<"0">> \o Decimal(n) ELSE Decimal(n)

\* f"diagram_{count:02}"
DefaultName(count) ==
    <<"d", "i", "a", "g", "r", "a", "m", "_">> \o Pad02(count)

\* \w of a str pattern: Unicode letters, digits and the underscore
IsWordChar(c) ==
    c \in AsciiUpper \cup AsciiLower \cup Digits \cup UnicodeWord \cup {"_"}

\* re.sub(r"[^\w\-_.]", "_", raw)
Sanitize(raw) ==
    [k \in 1..Len(raw) |->
        IF IsWordChar(raw[k]) \/ raw[k] \in {"-", "_", "."}
        THEN raw[k] ELSE "_"]

IsStart(line) == START_RE_match(Strip(line)) # Nothing

\* the outer scan: the first index >= i of a line the pattern matches,
\* Len(lines) + 1 when there is none
RECURSIVE ScanToStart(_, _)
ScanToStart(lines, i) ==
    IF i > Len(lines) THEN i
    ELSE IF IsStart(lines[i]) THEN i
    ELSE ScanToStart(lines, i + 1)

\* a variant of the inner loop that takes only a line that is the end
\* directive, and nothing else, for the end of the unit
RECURSIVE ScanToEnd_exact(_, _)
ScanToEnd_exact(lines, i) ==
    IF i > Len(lines) THEN i
    ELSE IF Strip(lines[i]) = END_DIRECTIVE THEN i
    ELSE ScanToEnd_exact(lines, i + 1)

\* a variant of the inner loop that lets a start directive end the open unit
RECURSIVE ScanToEnd_nesting(_, _)
ScanToEnd_nesting(lines, i) ==
    IF i > Len(lines) THEN i
    ELSE IF Contains(lines[i], END_DIRECTIVE) \/ IsStart(lines[i]) THEN i
    ELSE ScanToEnd_nesting(lines, i + 1)

\* the inner loop: the first index >= i of a line containing the end
\* directive, Len(lines) + 1 when there is none
RECURSIVE ScanToEnd(_, _)
ScanToEnd(lines, i) ==
    IF i > Len(lines) THEN i
    ELSE IF Contains(lines[i], END_DIRECTIVE) THEN i
    ELSE ScanToEnd(lines, i + 1)

\* the name of the unit opened by the (matching) line while the counter is
\* count
UnitName(line, count) ==
    LET m   == The(START_RE_match(Strip(line)))
        raw == IF m.group1 # Nothing /\ The(m.group1) # <<>>
               THEN The(m.group1) ELSE DefaultName(count)
    IN  Sanitize(raw)

\* a variant of the counter that advances only for the units it names
NextCount_unnamedOnly(line, count) ==
    IF The(START_RE_match(Strip(line))).group1 # Nothing
    THEN count ELSE count + 1

\* the counter after the (matching) line opened a unit: count += 1
NextCount(line, count) == count + 1

\* One resumption of the generator iter_diagrams from the state (i, count):
\* either it is exhausted, or it yields (name, text) and is left suspended
\* at the yield, its next statement being i += 1.
GenNext(lines, i, count) ==
    LET s == ScanToStart(lines, i)
    IN  IF s > Len(lines)
        THEN [done |-> TRUE, i |-> s, count |-> count,
              name |-> <<>>, text |-> <<>>, start |-> 0]
        ELSE LET e    == ScanToEnd(lines, s + 1)
                 last == IF e <= Len(lines) THEN e ELSE Len(lines)
             IN  [done |-> FALSE, i |-> e + 1, count |-> NextCount(lines[s], count),
                  name |-> UnitName(lines[s], count),
                  text |-> JoinLines(SubSeq(lines, s, last)),
                  start |-> s]

\* list(iter_diagrams(text)) from a generator state
RECURSIVE Drain(_, _, _)
Drain(lines, i, count) ==
    LET g == GenNext(lines, i, count)
    IN  IF g.done THEN <<>>
        ELSE <<[name |-> g.name, text |-> g.text, start |-> g.start]>>
             \o Drain(lines, g.i, g.count)

iter_diagrams(text) == Drain(SplitLines(text), 1, 1)

(***************************************************************************)
(* State.                                                                  *)
(***************************************************************************)
VARIABLES
    pc,         \* the position of the single thread of control
    args,       \* the parsed command line: server, docker, method
    source,     \* the text of the input file
    delays,     \* the times, in half seconds, a probe request can take to
                \* be answered or to fail in this environment
    base,       \* the server base URL in use, None before it is known
    cid,        \* the captured container identifier, None when there is none
    pending,    \* the exception propagating out of main, None when none
    exitStatus, \* the exit status of the process, None while it runs
    elapsed,    \* _wait_for_server: time.time() - t0, in half seconds
    probes,     \* _wait_for_server: probe requests issued by the running call
    sawUp,      \* whether some probe was answered with HTTP 200 or 400
    stops,      \* the identifiers the stop command was issued against
    gen,        \* the suspended generator iter_diagrams: lines, i, count
    units,      \* the units the generator yielded so far, with the index of
                \* the line that opened each
    cur,        \* run_exports: the loop variables name and text
    req,        \* the requests of the export_png call of the current
                \* iteration and their responses
    result,     \* what that call returned or raised, absent once the
                \* iteration has dealt with it
    ok, fail, failures,  \* run_exports: the counters and the failure list
    files,      \* the output directory: file name -> contents
    launches,   \* the number of docker run commands issued
    stopCode,   \* what subprocess.call returned for docker stop, absent
                \* before the command has run
    console,    \* the lines docker_plantuml and _wait_for_server printed
    enc,        \* _encode_bytes: its argument data, the loop index i and
                \* the list out
    onPath      \* whether a docker executable is on the PATH

vars ==
    <<pc, args, source, delays, base, cid, pending, exitStatus, elapsed, probes,
      sawUp, stops, gen, units, cur, req, result, ok, fail, failures,
      files, launches, stopCode, console, enc, onPath>>

tokVars == <<gen, units>>

runVars == <<cur, req, result, ok, fail, failures, files>>

waitVars == <<elapsed, probes, sawUp>>

dockerVars == <<launches, stopCode, console>>

NoEnc == [data |-> <<>>, i |-> 0, out |-> <<>>]

NoReq == [posts |-> 0, gets |-> 0, post |-> Nothing, get |-> Nothing]

NoArgs == [server |-> Nothing, docker |-> FALSE, method |-> "AUTO"]

\* the values every variable has before main uses it
Blank ==
    /\ base = Nothing /\ cid = None /\ pending = None
    /\ exitStatus = Nothing
    /\ elapsed = 0 /\ probes = 0 /\ sawUp = FALSE /\ stops = <<>>
    /\ gen = Nothing /\ units = <<>> /\ cur = Nothing /\ req = NoReq
    /\ result = Nothing
    /\ ok = 0 /\ fail = 0 /\ failures = <<>> /\ files = <<>>
    /\ launches = 0 /\ stopCode = Nothing /\ console = <<>>
    /\ enc = NoEnc

(***************************************************************************)
(* Source documents.                                                       *)
(***************************************************************************)
Str_startuml == START_WORD

Str_named == START_WORD \o <<" ", "A">>

\* indented, upper case, two blanks, a name to sanitize, a second token
Str_odd ==
    <<"\t", "@", "S", "T", "A", "R", "T", "U", "M", "L", " ", " ",
      "é", "!", " ", "b">>

Str_enduml == END_DIRECTIVE

Str_inlineEnd == <<"x", " ">> \o END_DIRECTIVE

Str_content == <<"A", "-", ">", "B">>

\* a start directive whose name argument is the end directive
Str_startEnd == START_WORD \o <<" ">> \o END_DIRECTIVE

LinePool ==
    {Str_startuml, Str_named, Str_odd, Str_enduml, Str_inlineEnd,
     Str_content, Str_startEnd}

SeqsUpTo(S, n) == UNION {[1..k -> S] : k \in 0..n}

RECURSIVE Concat(_)
Concat(ss) == IF ss = <<>> THEN <<>> ELSE Head(ss) \o Concat(Tail(ss))

\* a file of the given lines, each ended by a newline
FileOf(ls) == Concat([k \in 1..Len(ls) |-> ls[k] \o <<"\n">>])

\* the documents given to the tokenizer alone
TokSources == {FileOf(ls) : ls \in SeqsUpTo(LinePool, MaxLines)}

(***************************************************************************)
(* The tokenizer alone: the generator is resumed until it is exhausted.    *)
(***************************************************************************)
InitTok ==
    /\ pc = "tok"
    /\ args = NoArgs
    /\ source \in TokSources
    /\ delays = {0}
    /\ onPath = TRUE
    /\ Blank

\* the first next(): the body starts, lines = text.splitlines()
TokStart ==
    /\ pc = "tok" /\ gen = Nothing
    /\ gen' = Some([lines |-> SplitLines(source), i |-> 1, count |-> 1])
    /\ UNCHANGED dockerVars
    /\ UNCHANGED <<pc, args, source, delays, enc, onPath, base, cid, pending,
                   exitStatus, units>>
    /\ UNCHANGED waitVars /\ UNCHANGED stops /\ UNCHANGED runVars

\* a resumption that yields a unit
TokYield ==
    /\ pc = "tok" /\ gen # Nothing
    /\ LET g == GenNext(The(gen).lines, The(gen).i, The(gen).count)
       IN  /\ ~g.done
           /\ gen' = Some([The(gen) EXCEPT !.i = g.i, !.count = g.count])
           /\ units' = Append(units, [name |-> g.name, text |-> g.text,
                                      start |-> g.start])
    /\ UNCHANGED dockerVars
    /\ UNCHANGED <<pc, args, source, delays, enc, onPath, base, cid, pending,
                   exitStatus>>
    /\ UNCHANGED waitVars /\ UNCHANGED stops /\ UNCHANGED runVars

\* the resumption that ends the generator
TokStop ==
    /\ pc = "tok" /\ gen # Nothing
    /\ LET g == GenNext(The(gen).lines, The(gen).i, The(gen).count)
       IN  /\ g.done
           /\ gen' = Some([The(gen) EXCEPT !.i = g.i])
    /\ pc' = "tokdone"
    /\ UNCHANGED dockerVars
    /\ UNCHANGED <<args, source, delays, enc, onPath, base, cid, pending, exitStatus,
                   units>>
    /\ UNCHANGED waitVars /\ UNCHANGED stops /\ UNCHANGED runVars

NextTok == TokStart \/ TokYield \/ TokStop

SpecTok == InitTok /\ [][NextTok]_vars

(***************************************************************************)
(* HTTP helpers: _PNG_MAGIC, _is_png, _export_post, _export_get,           *)
(* export_png.                                                             *)
(***************************************************************************)
PNG_MAGIC == <<137, 80, 78, 71, 13, 10, 26, 10>>

\* response bodies: two images, an HTML page, an image header cut short
BodyImageA == PNG_MAGIC \o <<1>>

BodyImageB == PNG_MAGIC \o <<2>>

BodyHtml == <<60, 104, 116, 109, 108, 62>>

BodyCutShort == SubSeq(PNG_MAGIC, 1, 7)

\* the HTTP responses the rendering server gives to an export request
Responses ==
    {[status |-> 200, content |-> BodyImageA],
     [status |-> 500, content |-> BodyImageB],
     [status |-> 200, content |-> BodyHtml],
     [status |-> 500, content |-> BodyCutShort]}

\* requests.post / requests.get raising instead of returning a response
NetworkError == [raised |-> "requests.exceptions.ConnectionError"]

RequestOutcomes == Responses \cup {NetworkError}

\* a variant of the success test that trusts the HTTP status
is_png_byStatus(resp) == resp.status = 200

is_png(resp) == StartsWith(resp.content, PNG_MAGIC)

\* what a call returned, or the exception it raised
Returned(v) == [kind |-> "return", value |-> v]

Raised(msg) == [kind |-> "raise", msg |-> msg]

MsgNetwork == <<NetworkError.raised>>

MsgPostNoPng == <<"Server did not return PNG on POST.">>

\* f"GET failed: HTTP {r.status_code}"
MsgGetFailed(status) == <<"GET failed: HTTP ">> \o Decimal(status)

MsgOSError == <<"OSError">>

\* _export_post on the response r: the body or None
export_post(r) == IF is_png(r) THEN Some(r.content) ELSE Nothing

\* _export_get on the response r: the body or RuntimeError
export_get(r) ==
    IF is_png(r) THEN Returned(r.content)
    ELSE Raised(MsgGetFailed(r.status))

\* the truth value Python gives an Optional[bytes]
Truthy(img) == img # Nothing /\ The(img) # <<>>

\* a variant of export_png whose AUTO method always goes on to the GET
AfterPost_alwaysGet(method, r) ==
    LET img == export_post(r)
    IN  IF method = "POST"
        THEN IF img = Nothing THEN Some(Raised(MsgPostNoPng))
             ELSE Some(Returned(The(img)))
        ELSE Nothing

\* a variant of export_png whose AUTO method reports the POST failure
\* instead of falling back to GET
AfterPost_noFallback(method, r) ==
    LET img == export_post(r)
    IN  IF img = Nothing THEN Some(Raised(MsgPostNoPng))
        ELSE Some(Returned(The(img)))

\* export_png after its POST was answered by r: the result, or absent when
\* the GET request comes next
AfterPost(method, r) ==
    LET img == export_post(r)
    IN  IF method = "POST"
        THEN IF img = Nothing THEN Some(Raised(MsgPostNoPng))
             ELSE Some(Returned(The(img)))
        ELSE IF Truthy(img) THEN Some(Returned(The(img))) ELSE Nothing

(***************************************************************************)
(* The run: main, docker_plantuml, _wait_for_server, run_exports.          *)
(***************************************************************************)
ServerURL == <<"h", "t", "t", "p", ":", "/", "/", "s", "/">>

PublicURL == <<"https://www.plantuml.com/plantuml">>

Port == 18080

\* f"http://localhost:{port}"
LocalURL(port) == <<"http://localhost:">> \o Decimal(port)

\* s.rstrip("/")
RECURSIVE RStripSlash(_)
RStripSlash(s) ==
    IF s # <<>> /\ s[Len(s)] = "/"
    THEN RStripSlash(SubSeq(s, 1, Len(s) - 1))
    ELSE s

Methods == {"AUTO", "POST", "GET"}

\* the command lines: --server, --docker or neither, with each --method
ArgsSet ==
    {a \in [server : {Nothing, Some(ServerURL)}, docker : BOOLEAN,
            method : Methods] : a.server = Nothing \/ ~a.docker}

\* the diagram blocks batch sources are made of
BlockUnnamed == FileOf(<<Str_startuml, Str_content, Str_enduml>>)

BlockNamed == FileOf(<<Str_named, Str_enduml>>)

BlockPool == {BlockUnnamed, BlockNamed}

RunSources == {Concat(bs) : bs \in SeqsUpTo(BlockPool, MaxBlocks)}

\* timeout=60, time.sleep(1.5) and requests.get(timeout=2), in half seconds
TimeoutTicks == 120

SleepTicks == 3

ProbeTimeoutTicks == 4

ProbeStatuses == {200, 400, 503}

\* what requests.get gives a probe: a response, or RequestException
ProbeOutcomes == {[status |-> c] : c \in ProbeStatuses} \cup {NetworkError}

\* a variant of the status test that takes only HTTP 200 for "up"
IsUp_only200(status) == status = 200

\* the test of _wait_for_server on a probe's status code
IsUp(status) == status \in {200, 400}

\* a variant of the loop test that still probes when the timeout is reached
StillWaiting_inclusive(t) == t <= TimeoutTicks

\* the loop test of _wait_for_server: time.time() - t0 < timeout
StillWaiting(t) == t < TimeoutTicks

ContainerId == "c0ffee"

\* the lines printed on lines 26, 48 and 35
MsgStarting == "Starting PlantUML container"

MsgUp == "PlantUML server is up."

MsgStopping == "Stopping container"

\* what subprocess.call returns for docker stop: its exit code (non-zero
\* when the stop fails, as for a container that is gone already)
StopCodes == {0, 1}

InDockerScope == args.server = Nothing /\ args.docker

\* the exit status of the interpreter when main ends with the exception e
ExitCode(e) == IF e = None THEN 0 ELSE 1

Init ==
    /\ pc = "main"
    /\ args \in ArgsSet
    /\ source \in RunSources
    /\ delays = {0}
    /\ onPath \in (IF args.docker THEN BOOLEAN ELSE {TRUE})
    /\ Blank

\* main, lines 192-198: the choice of the server
Main ==
    /\ pc = "main"
    /\ IF args.server # Nothing
       THEN base' = RStripSlash(The(args.server)) /\ pc' = "run_exports"
       ELSE IF args.docker
       THEN base' = base /\ pc' = "docker_which"
       ELSE base' = PublicURL /\ pc' = "run_exports"
    /\ UNCHANGED dockerVars
    /\ UNCHANGED <<args, source, delays, enc, onPath, cid, pending, exitStatus, stops>>
    /\ UNCHANGED waitVars /\ UNCHANGED tokVars /\ UNCHANGED runVars

\* a variant that takes the executable for granted
which_assumed(present) == TRUE

\* the truth value of shutil.which("docker")
which(present) == present

\* docker_plantuml, lines 23-24: the test of shutil.which("docker")
DockerWhich ==
    /\ pc = "docker_which"
    /\ IF which(onPath)
       THEN pc' = "docker_run" /\ UNCHANGED <<pending, exitStatus>>
       ELSE /\ pending' = "RuntimeError: Docker executable not found"
            /\ exitStatus' = Some(ExitCode(pending'))
            /\ pc' = "done"
    /\ UNCHANGED dockerVars
    /\ UNCHANGED <<args, source, delays, enc, onPath, base, cid, stops>>
    /\ UNCHANGED waitVars /\ UNCHANGED tokVars /\ UNCHANGED runVars

\* docker_plantuml, lines 26-29: docker run -d, whose output is the identifier
DockerRun ==
    /\ pc = "docker_run"
    /\ \E launched \in BOOLEAN :
        IF launched
        THEN /\ cid' = ContainerId
             /\ pc' = "wait_test"
             /\ UNCHANGED <<pending, exitStatus>>
        ELSE /\ pending' = "CalledProcessError"
             /\ exitStatus' = Some(ExitCode(pending'))
             /\ pc' = "done"
             /\ cid' = cid
    /\ launches' = launches + 1
    /\ console' = Append(console, MsgStarting)
    /\ UNCHANGED <<args, source, delays, enc, onPath, base, stops, stopCode>>
    /\ UNCHANGED waitVars /\ UNCHANGED tokVars /\ UNCHANGED runVars

\* _wait_for_server, lines 44 and 53: the loop test, and the timeout
WaitTest ==
    /\ pc = "wait_test"
    /\ IF StillWaiting(elapsed)
       THEN pc' = "wait_probe" /\ pending' = pending
       ELSE /\ pending' = "RuntimeError: Timed out waiting for server"
            /\ pc' = "docker_finally"
    /\ UNCHANGED dockerVars
    /\ UNCHANGED <<args, source, delays, enc, onPath, base, cid, exitStatus, stops>>
    /\ UNCHANGED waitVars /\ UNCHANGED tokVars /\ UNCHANGED runVars

\* _wait_for_server, lines 45-51: one probe; it returns on an "up" status
WaitProbe ==
    /\ pc = "wait_probe"
    /\ \E d \in delays, r \in ProbeOutcomes :
        LET up == r # NetworkError /\ IsUp(r.status)
        IN  /\ sawUp' = (sawUp \/ r \in {[status |-> 200], [status |-> 400]})
            /\ IF up
               THEN /\ pc' = "docker_yield" /\ elapsed' = 0 /\ probes' = 0
                    /\ console' = Append(console, MsgUp)
               ELSE /\ pc' = "wait_sleep"
                    /\ elapsed' = elapsed + d
                    /\ probes' = probes + 1
                    /\ console' = console
    /\ UNCHANGED <<launches, stopCode>>
    /\ UNCHANGED <<args, source, delays, enc, onPath, base, cid, pending, exitStatus,
                   stops>>
    /\ UNCHANGED tokVars /\ UNCHANGED runVars

\* _wait_for_server, line 52: time.sleep(1.5)
WaitSleep ==
    /\ pc = "wait_sleep"
    /\ elapsed' = elapsed + SleepTicks
    /\ pc' = "wait_test"
    /\ UNCHANGED dockerVars
    /\ UNCHANGED <<args, source, delays, enc, onPath, base, cid, pending, exitStatus,
                   stops, probes, sawUp>>
    /\ UNCHANGED tokVars /\ UNCHANGED runVars

\* docker_plantuml, line 33: the yield of the base URL; main calls run_exports
DockerYield ==
    /\ pc = "docker_yield"
    /\ base' = LocalURL(Port)
    /\ pc' = "run_exports"
    /\ UNCHANGED dockerVars
    /\ UNCHANGED <<args, source, delays, enc, onPath, cid, pending, exitStatus, stops>>
    /\ UNCHANGED waitVars /\ UNCHANGED tokVars /\ UNCHANGED runVars

\* run_exports, lines 143-145: the counters, and the generator is created
RunStart ==
    /\ pc = "run_exports"
    /\ ok' = 0 /\ fail' = 0 /\ failures' = <<>>
    /\ gen' = Some([lines |-> SplitLines(source), i |-> 1, count |-> 1])
    /\ pc' = "loop"
    /\ UNCHANGED dockerVars
    /\ UNCHANGED <<args, source, delays, enc, onPath, base, cid, pending, exitStatus,
                   stops, units, cur, req, result, files>>
    /\ UNCHANGED waitVars

\* run_exports, line 145: the for statement resumes the generator
Loop ==
    /\ pc = "loop"
    /\ LET g == GenNext(The(gen).lines, The(gen).i, The(gen).count)
       IN  IF g.done
           THEN /\ gen' = Some([The(gen) EXCEPT !.i = g.i])
                /\ pc' = "summary"
                /\ UNCHANGED <<units, cur, req, result>>
           ELSE /\ gen' = Some([The(gen) EXCEPT !.i = g.i,
                                               !.count = g.count])
                /\ units' = Append(units, [name |-> g.name, text |-> g.text,
                                           start |-> g.start])
                /\ cur' = Some([name |-> g.name, text |-> g.text])
                /\ UNCHANGED <<req, result>>
                /\ pc' = "export_png"
    /\ UNCHANGED dockerVars
    /\ UNCHANGED <<args, source, delays, enc, onPath, base, cid, pending, exitStatus,
                   stops, ok, fail, failures, files>>
    /\ UNCHANGED waitVars

\* a variant that does not wait for the response before it goes on
AwaitPost_fireAndForget == "loop"

\* requests.post blocks until the response is there or the call fails
AwaitPost == "post_sent"

\* export_png, lines 131-135 and 139, with _export_post: the POST request
\* is sent
ExportPost ==
    /\ pc = "export_png" /\ args.method \in {"POST", "AUTO"}
    /\ req' = [req EXCEPT !.posts = @ + 1]
    /\ pc' = AwaitPost
    /\ UNCHANGED dockerVars
    /\ UNCHANGED <<args, source, delays, enc, onPath, base, cid, pending, exitStatus,
                   stops, cur, result, ok, fail, failures, files>>
    /\ UNCHANGED waitVars /\ UNCHANGED tokVars

\* lines 119-120, then 133-135 or 139: the POST is answered, or fails
PostAnswered ==
    /\ pc = "post_sent"
    /\ \E r \in RequestOutcomes :
        /\ req' = [req EXCEPT !.post = Some(r)]
        /\ IF r = NetworkError
           THEN result' = Some(Raised(MsgNetwork)) /\ pc' = "handle"
           ELSE /\ result' = AfterPost(args.method, r)
                /\ pc' = IF result' = Nothing THEN "export_get" ELSE "handle"
    /\ UNCHANGED dockerVars
    /\ UNCHANGED <<args, source, delays, enc, onPath, base, cid, pending, exitStatus,
                   stops, cur, ok, fail, failures, files>>
    /\ UNCHANGED waitVars /\ UNCHANGED tokVars

\* export_png, lines 136-137 and 139, with _export_get: the GET request
\* is sent
ExportGet ==
    /\ \/ pc = "export_png" /\ args.method = "GET"
       \/ pc = "export_get"
    /\ req' = [req EXCEPT !.gets = @ + 1]
    /\ pc' = "get_sent"
    /\ UNCHANGED dockerVars
    /\ UNCHANGED <<args, source, delays, enc, onPath, base, cid, pending, exitStatus,
                   stops, cur, result, ok, fail, failures, files>>
    /\ UNCHANGED waitVars /\ UNCHANGED tokVars

\* lines 124-127: the GET is answered, or fails
GetAnswered ==
    /\ pc = "get_sent"
    /\ \E r \in RequestOutcomes :
        /\ req' = [req EXCEPT !.get = Some(r)]
        /\ result' = IF r = NetworkError THEN Some(Raised(MsgNetwork))
                     ELSE Some(export_get(r))
    /\ pc' = "handle"
    /\ UNCHANGED dockerVars
    /\ UNCHANGED <<args, source, delays, enc, onPath, base, cid, pending, exitStatus,
                   stops, cur, ok, fail, failures, files>>
    /\ UNCHANGED waitVars /\ UNCHANGED tokVars

\* f"{name}.png" in the output directory
OutPath(name) == name \o <<".", "p", "n", "g">>

Put(f, k, v) == [x \in DOMAIN f \cup {k} |-> IF x = k THEN v ELSE f[x]]

\* a variant in which a failed unit ends the loop
AfterFailure_abort == "summary"

\* where the loop body goes after a unit failed
AfterFailure == "loop"

\* a variant that puts the newest failure first
Record_prepend(fs, name, msg) == <<(<<name, msg>>)>> \o fs

\* failures.append((name, str(e))), line 157
Record(fs, name, msg) == Append(fs, <<name, msg>>)

\* run_exports, lines 150-153: the file is opened and the image stored
WriteFile ==
    /\ pc = "handle" /\ The(result).kind = "return"
    /\ LET img  == The(result).value
           path == OutPath(The(cur).name)
       IN  \E io \in {"ok", "open fails", "write fails"} :
            /\ files' = IF io = "open fails" THEN files
                        ELSE Put(files, path, IF io = "ok" THEN img ELSE <<>>)
            /\ IF io = "ok"
               THEN /\ ok' = ok + 1
                    /\ pc' = "loop"
                    /\ UNCHANGED <<fail, failures>>
               ELSE /\ fail' = fail + 1
                    /\ failures' =
                           Record(failures, The(cur).name, MsgOSError)
                    /\ pc' = AfterFailure
                    /\ ok' = ok
    /\ req' = NoReq /\ result' = Nothing
    /\ UNCHANGED dockerVars
    /\ UNCHANGED <<args, source, delays, enc, onPath, base, cid, pending, exitStatus,
                   stops, cur>>
    /\ UNCHANGED waitVars /\ UNCHANGED tokVars

\* run_exports, lines 154-157: the handler of an exception of export_png
ExportFailed ==
    /\ pc = "handle" /\ The(result).kind = "raise"
    /\ fail' = fail + 1
    /\ failures' = Record(failures, The(cur).name, The(result).msg)
    /\ pc' = AfterFailure
    /\ req' = NoReq /\ result' = Nothing
    /\ UNCHANGED dockerVars
    /\ UNCHANGED <<args, source, delays, enc, onPath, base, cid, pending, exitStatus,
                   stops, cur, ok, files>>
    /\ UNCHANGED waitVars /\ UNCHANGED tokVars

\* a variant of the test that tolerates a single failure
ExitsWithFailure_tolerant(fs, nfail) == Len(fs) > 1 /\ nfail # 0

\* the test that guards sys.exit(1), lines 162 and 166
ExitsWithFailure(fs, nfail) == fs # <<>> /\ nfail # 0

\* run_exports, lines 158-167: the summary and sys.exit(1); outside the
\* container scope the process ends here
Summary ==
    /\ pc = "summary"
    /\ pending' = IF ExitsWithFailure(failures, fail)
                  THEN "SystemExit(1)" ELSE None
    /\ IF InDockerScope
       THEN pc' = "docker_finally" /\ exitStatus' = exitStatus
       ELSE pc' = "done" /\ exitStatus' = Some(ExitCode(pending'))
    /\ UNCHANGED dockerVars
    /\ UNCHANGED <<args, source, delays, enc, onPath, base, cid, stops>>
    /\ UNCHANGED waitVars /\ UNCHANGED tokVars /\ UNCHANGED runVars

\* a variant without try/finally: the stop is skipped when an exception
\* leaves the body
DockerFinally_noFinally ==
    /\ pc = "docker_finally"
    /\ stops' = IF pending = None THEN Append(stops, cid) ELSE stops
    /\ \E returncode \in StopCodes :
          stopCode' = IF pending = None THEN Some(returncode) ELSE stopCode
    /\ console' = console
    /\ exitStatus' = Some(ExitCode(pending))
    /\ pc' = "done"
    /\ launches' = launches
    /\ UNCHANGED <<args, source, delays, enc, onPath, base, cid, pending>>
    /\ UNCHANGED waitVars /\ UNCHANGED tokVars /\ UNCHANGED runVars

\* docker_plantuml, lines 34-36: docker stop with its output discarded and
\* its return code ignored; the exception that left the body, if any, goes
\* on and ends the process
DockerFinally ==
    /\ pc = "docker_finally"
    /\ console' = Append(console, MsgStopping)
    /\ stops' = Append(stops, cid)
    /\ \E returncode \in StopCodes : stopCode' = Some(returncode)
    /\ exitStatus' = Some(ExitCode(pending))
    /\ pc' = "done"
    /\ launches' = launches
    /\ UNCHANGED <<args, source, delays, enc, onPath, base, cid, pending>>
    /\ UNCHANGED waitVars /\ UNCHANGED tokVars /\ UNCHANGED runVars

Next ==
    \/ Main \/ DockerWhich \/ DockerRun
    \/ WaitTest \/ WaitProbe \/ WaitSleep \/ DockerYield
    \/ RunStart \/ Loop \/ ExportPost \/ PostAnswered
    \/ ExportGet \/ GetAnswered
    \/ WriteFile \/ ExportFailed \/ Summary \/ DockerFinally

Spec == Init /\ [][Next]_vars

(***************************************************************************)
(* The readiness probe alone: _wait_for_server from its entry, with probe  *)
(* requests that take from no time up to their timeout.                    *)
(***************************************************************************)
WaitPcs == {"wait_test", "wait_probe", "wait_sleep"}

InitWait ==
    /\ pc = "wait_test"
    /\ args \in {a \in ArgsSet : a.server = Nothing /\ a.docker}
    /\ source \in {<<>>, BlockUnnamed}
    /\ delays = 0..ProbeTimeoutTicks
    /\ onPath = TRUE
    /\ base = Nothing /\ cid = ContainerId /\ pending = None
    /\ exitStatus = Nothing
    /\ elapsed = 0 /\ probes = 0 /\ sawUp = FALSE /\ stops = <<>>
    /\ gen = Nothing /\ units = <<>> /\ cur = Nothing /\ req = NoReq
    /\ result = Nothing
    /\ ok = 0 /\ fail = 0 /\ failures = <<>> /\ files = <<>>
    /\ launches = 1 /\ stopCode = Nothing /\ console = <<MsgStarting>>
    /\ enc = NoEnc

NextWait == WaitTest \/ WaitProbe \/ WaitSleep

SpecWait == InitWait /\ [][NextWait]_vars

\* the loop is one thread that runs on: every enabled step is taken
FairWait == SpecWait /\ WF_vars(NextWait)

(***************************************************************************)
(* The encoder alone: _ALPHABET, _enc6, _encode_bytes run on byte          *)
(* sequences, one group of three bytes a step.                             *)
(***************************************************************************)
\* a variant with the alphabet of standard base64
ALPHABET_base64 ==
    <<"A", "B", "C", "D", "E", "F", "G", "H", "I", "J", "K", "L", "M",
     "N", "O", "P", "Q", "R", "S", "T", "U", "V", "W", "X", "Y", "Z",
     "a", "b", "c", "d", "e", "f", "g", "h", "i", "j", "k", "l", "m",
     "n", "o", "p", "q", "r", "s", "t", "u", "v", "w", "x", "y", "z",
     "0", "1", "2", "3", "4", "5", "6", "7", "8", "9", "+", "/">>

\* _ALPHABET, line 85
ALPHABET ==
    <<"0", "1", "2", "3", "4", "5", "6", "7", "8", "9", "A", "B", "C",
     "D", "E", "F", "G", "H", "I", "J", "K", "L", "M", "N", "O", "P",
     "Q", "R", "S", "T", "U", "V", "W", "X", "Y", "Z", "a", "b", "c",
     "d", "e", "f", "g", "h", "i", "j", "k", "l", "m", "n", "o", "p",
     "q", "r", "s", "t", "u", "v", "w", "x", "y", "z", "-", "_">>

\* _enc6: _ALPHABET[b & 0x3F]
enc6(b) == ALPHABET[(b % 64) + 1]

\* data[k] when the (1-based) index k is inside data, and 0 otherwise
ByteAt(data, k) == IF k <= Len(data) THEN data[k] ELSE 0

\* lines 93-99: the four symbols of the group that starts at index i;
\* x >> k is x \div 2^k, x & (2^k - 1) is x % 2^k, and | adds, its operands
\* having no bit in common
EncodeGroup(data, i) ==
    LET b1 == data[i]
        b2 == ByteAt(data, i + 1)
        b3 == ByteAt(data, i + 2)
    IN  <<enc6(b1 \div 4),
          enc6(((b1 % 4) * 16) + (b2 \div 16)),
          enc6(((b2 % 16) * 4) + (b3 \div 64)),
          enc6(b3 % 64)>>

\* the bytes the encoder is run on: all bits clear, all set, and bytes
\* whose bits cross the boundaries of the 6-bit fields
BytePool == {0, 1, 63, 64, 170, 255}

InitEnc ==
    /\ pc = "enc"
    /\ args = NoArgs
    /\ source = <<>>
    /\ delays = {0}
    /\ onPath = TRUE
    /\ base = Nothing /\ cid = None /\ pending = None
    /\ exitStatus = Nothing
    /\ elapsed = 0 /\ probes = 0 /\ sawUp = FALSE /\ stops = <<>>
    /\ gen = Nothing /\ units = <<>> /\ cur = Nothing /\ req = NoReq
    /\ result = Nothing
    /\ ok = 0 /\ fail = 0 /\ failures = <<>> /\ files = <<>>
    /\ launches = 0 /\ stopCode = Nothing /\ console = <<>>
    /\ \E data \in SeqsUpTo(BytePool, MaxBytes) :
          enc = [data |-> data, i |-> 1, out |-> <<>>]

\* one iteration of the for loop of line 92
EncGroup ==
    /\ pc = "enc" /\ enc.i <= Len(enc.data)
    /\ enc' = [enc EXCEPT !.out = @ \o EncodeGroup(enc.data, enc.i),
                          !.i = @ + 3]
    /\ UNCHANGED <<pc, args, source, delays, onPath, base, cid, pending,
                   exitStatus, stops>>
    /\ UNCHANGED dockerVars /\ UNCHANGED waitVars
    /\ UNCHANGED tokVars /\ UNCHANGED runVars

\* line 100: the range is exhausted and the symbols are joined
EncReturn ==
    /\ pc = "enc" /\ enc.i > Len(enc.data)
    /\ pc' = "encdone"
    /\ UNCHANGED <<args, source, delays, enc, onPath, base, cid, pending,
                   exitStatus, stops>>
    /\ UNCHANGED dockerVars /\ UNCHANGED waitVars
    /\ UNCHANGED tokVars /\ UNCHANGED runVars

NextEnc == EncGroup \/ EncReturn

SpecEnc == InitEnc /\ [][NextEnc]_vars

(***************************************************************************)
(* Properties of the tokenizer (specification SpecTok).                    *)
(***************************************************************************)
SourceLines == SplitLines(source)

\* the ascending sequence of the members of a finite set of numbers
RECURSIVE Sorted(_)
Sorted(S) ==
    IF S = {} THEN <<>>
    ELSE LET m == CHOOSE x \in S : \A y \in S : x <= y
         IN  <<m>> \o Sorted(S \ {m})

StartLines == {k \in 1..Len(SourceLines) : IsStart(SourceLines[k])}

\* whether a unit is open when line k is read: a unit is opened by a start
\* directive read while none is open, and closed by the next later line that
\* contains the end directive
RECURSIVE OpenBefore(_)
OpenBefore(k) ==
    IF k <= 1 THEN FALSE
    ELSE IF OpenBefore(k - 1)
         THEN ~Contains(SourceLines[k - 1], END_DIRECTIVE)
         ELSE IsStart(SourceLines[k - 1])

OpeningLines == {k \in StartLines : ~OpenBefore(k)}

UnitStarts == [n \in 1..Len(units) |-> units[n].start]

\* C9 as stated: a source with exactly k start-directive lines yields
\* exactly k units, in the order of those lines.
C9_CountAllStartLines ==
    pc = "tokdone" => UnitStarts = Sorted(StartLines)

\* C9, amended: a source with exactly k start-directive lines that are not
\* inside an already open unit yields exactly k units, the n-th unit being
\* the one opened by the n-th such line.
C9_CountOpeningLines ==
    pc = "tokdone" => UnitStarts = Sorted(OpeningLines)

\* a start directive inside an open unit, and two units yielded
C9_Witness ==
    /\ pc = "tokdone"
    /\ Len(units) = 2
    /\ StartLines # OpeningLines

\* the name argument of a start-directive line, absent when it has none
NameArgument(line) == The(START_RE_match(Strip(line))).group1

\* C10: the n-th unit yielded is named by (the sanitized form of) its
\* explicit name argument when it has one, and otherwise by diagram_NN with
\* NN = n in two digits: the counter advances once per opened unit, named
\* or not.
C10_NthUnitName ==
    \A n \in 1..Len(units) :
        LET arg == NameArgument(SourceLines[units[n].start])
        IN  units[n].name =
                IF arg # Nothing
                THEN Sanitize(The(arg))
                ELSE <<"d", "i", "a", "g", "r", "a", "m", "_">>
                     \o (IF n < 10 THEN <<"0">> ELSE <<>>) \o Decimal(n)

\* a named unit followed by an unnamed one, which is diagram_02
C10_Witness ==
    /\ Len(units) >= 2
    /\ NameArgument(SourceLines[units[1].start]) = Some(<<"A">>)
    /\ units[1].name = <<"A">>
    /\ NameArgument(SourceLines[units[2].start]) = Nothing
    /\ units[2].name = <<"d", "i", "a", "g", "r", "a", "m", "_", "0", "2">>

\* the characters of [A-Za-z0-9_.-]
NameAlphabet ==
    {"A", "B", "C", "D", "E", "F", "G", "H", "I", "J", "K", "L", "M", "N",
     "O", "P", "Q", "R", "S", "T", "U", "V", "W", "X", "Y", "Z",
     "a", "b", "c", "d", "e", "f", "g", "h", "i", "j", "k", "l", "m", "n",
     "o", "p", "q", "r", "s", "t", "u", "v", "w", "x", "y", "z",
     "0", "1", "2", "3", "4", "5", "6", "7", "8", "9", "_", ".", "-"}

\* the raw name of the n-th unit: its name argument, or diagram_NN
RawName(n) ==
    LET arg == NameArgument(SourceLines[units[n].start])
    IN  IF arg # Nothing THEN The(arg)
        ELSE <<"d", "i", "a", "g", "r", "a", "m", "_">>
             \o (IF n < 10 THEN <<"0">> ELSE <<>>) \o Decimal(n)

\* C11 as stated: every unit name is made of characters of [A-Za-z0-9_.-]
\* only: it is the raw name with every character outside that set replaced
\* by "_" and every character inside it kept, one for one.
C11_NameInAsciiAlphabet ==
    \A n \in 1..Len(units) :
        LET raw == RawName(n)
        IN  /\ Len(units[n].name) = Len(raw)
            /\ \A k \in 1..Len(raw) :
                  units[n].name[k] =
                      IF raw[k] \in NameAlphabet THEN raw[k] ELSE "_"

(***************************************************************************)
(* Properties of the run (specification Spec).                             *)
(***************************************************************************)
\* run_exports has left its loop
LoopEnded ==
    pc = "summary" \/ (pc \in {"docker_finally", "done"} /\ gen # Nothing)

\* the generator has no unit left to yield
Exhausted == The(gen).i > Len(The(gen).lines)

\* C1: every unit the tokenizer yields is attempted once, in emission
\* order, whatever happened to the units before it; a failed export or file
\* write is counted and recorded, the loop goes on, and no such failure
\* leaves run_exports as an exception.
C1_EveryUnitAttempted ==
    /\ pc = "summary" => units = Drain(The(gen).lines, 1, 1)
    /\ LoopEnded =>
          /\ Exhausted
          /\ ok + fail = Len(units)
          /\ Len(failures) = fail
    /\ pc = "handle" =>
          /\ result # Nothing
          /\ req.posts + req.gets >= 1
          /\ The(cur).name = units[Len(units)].name
          /\ ok + fail = Len(units) - 1
    /\ (gen # Nothing /\ pending # None) =>
          (pending = "SystemExit(1)" /\ LoopEnded /\ pc # "summary")

\* three units, two of them failed (one by its file write, one by its
\* export), and the batch still reached its summary
C1_Witness ==
    /\ pc = "summary"
    /\ Len(units) = 3 /\ ok = 1 /\ fail = 2
    /\ \E k \in 1..Len(failures) : failures[k][2] = MsgOSError
    /\ \E k \in 1..Len(failures) : failures[k][2] = MsgNetwork

\* C2: a run of run_exports ends with a non-zero exit status exactly when a
\* unit failed, the status is raised only once every unit is processed, and
\* a run without failure (a run without units too) ends with status zero.
C2_ExitStatusIffFailure ==
    /\ (pc = "done" /\ gen # Nothing) =>
          exitStatus = Some(IF fail > 0 THEN 1 ELSE 0)
    /\ (gen # Nothing /\ pc # "done") => exitStatus = Nothing
    /\ pending = "SystemExit(1)" =>
          (LoopEnded /\ Exhausted /\ ok + fail = Len(units))

\* two units exported, one failed, and the process ended with status 1
C2_Witness ==
    /\ pc = "done" /\ exitStatus = Some(1)
    /\ ok = 2 /\ fail = 1

PostFailed ==
    /\ req.post # Nothing
    /\ IF The(req.post) = NetworkError THEN TRUE
       ELSE ~StartsWith(The(req.post).content, PNG_MAGIC)

\* C3 as stated: under AUTO the POST comes first and, whenever it fails, by
\* a body that is no PNG or by a network error or timeout of the POST call,
\* the GET request is then attempted.
C3_GetAfterAnyPostFailure ==
    (args.method = "AUTO" /\ pc = "handle") =>
        /\ req.posts = 1
        /\ PostFailed => req.gets = 1

Answered(o) == o # Nothing /\ The(o) \in Responses

\* C4: under AUTO with every request answered by an HTTP response, the
\* result is the POST body if it is a PNG, else the GET body if that is a
\* PNG, and else the error of the GET carrying the GET response's status.
C4_AutoResult ==
    (args.method = "AUTO" /\ pc = "handle" /\ Answered(req.post)
        /\ (req.get = Nothing \/ Answered(req.get))) =>
        LET post == The(req.post)
        IN  IF StartsWith(post.content, PNG_MAGIC)
            THEN result = Some(Returned(post.content)) /\ req.gets = 0
            ELSE /\ req.gets = 1 /\ Answered(req.get)
                 /\ LET get == The(req.get)
                    IN  IF StartsWith(get.content, PNG_MAGIC)
                        THEN result = Some(Returned(get.content))
                        ELSE result =
                                 Some(Raised(<<"GET failed: HTTP ">>
                                             \o Decimal(get.status)))

\* both bodies are not images: the error names the status of the GET
C4_Witness ==
    /\ args.method = "AUTO" /\ pc = "handle"
    /\ req.post = Some([status |-> 200, content |-> BodyHtml])
    /\ req.get = Some([status |-> 500, content |-> BodyCutShort])
    /\ result = Some(Raised(<<"GET failed: HTTP ", "5", "0", "0">>))

\* the response that decided the export_png call of the current iteration
LastResponse == IF req.gets > 0 THEN req.get ELSE req.post

\* C5: for every method an export succeeds exactly when the body of the
\* response starts with the 8 bytes of the PNG magic, whatever the HTTP
\* status; export_png returns, and run_exports stores, only such bytes.
C5_SuccessIsPngMagic ==
    /\ (pc = "handle" /\ Answered(LastResponse)) =>
          LET body == The(LastResponse).content
              png  == Len(body) >= 8
                      /\ SubSeq(body, 1, 8) = <<137, 80, 78, 71, 13, 10, 26, 10>>
          IN  IF png THEN result = Some(Returned(body))
              ELSE The(result).kind = "raise"
    /\ (pc = "handle" /\ The(result).kind = "return") =>
          StartsWith(The(result).value, PNG_MAGIC)
    /\ \A path \in DOMAIN files :
          files[path] # <<>> => StartsWith(files[path], PNG_MAGIC)

\* a body that is no image fails under a status of 200
C5_Witness ==
    /\ pc = "handle" /\ args.method = "POST"
    /\ req.post = Some([status |-> 200, content |-> BodyHtml])
    /\ result = Some(Raised(MsgPostNoPng))

\* the positions inside the try block of docker_plantuml
ScopePcs ==
    WaitPcs \cup {"docker_yield", "run_exports", "loop", "export_png",
                  "post_sent", "export_get", "get_sent", "handle",
                  "summary"}

\* C6: once a container is launched and its identifier captured, every way
\* out of the scope (the batch returning, sys.exit(1), the probe timing out)
\* leads to the stop command, which is issued once, against the captured
\* identifier, and is followed by no export request.
C6_OneStop ==
    /\ Len(stops) <= 1
    /\ \A k \in 1..Len(stops) : stops[k] = ContainerId /\ cid = ContainerId
    /\ (pc = "done" /\ cid # None) => stops = <<cid>>
    /\ stops # <<>> => (pc = "done" /\ req = NoReq)

C6_StopOnEveryExit ==
    /\ []C6_OneStop
    /\ [][(InDockerScope /\ cid # None /\ pc \in ScopePcs
            /\ pc' \notin ScopePcs) => pc' = "docker_finally"]_vars
    /\ [][pc = "docker_finally" =>
            (stops' = Append(stops, cid) /\ pc' = "done")]_vars
    /\ [][stops # <<>> => (req' = req /\ stops' = stops)]_vars

\* the batch ended the process with a failure status, and the container
\* was stopped
C6_Witness ==
    /\ pc = "done" /\ stops = <<ContainerId>>
    /\ pending = "SystemExit(1)" /\ exitStatus = Some(1)

\* C7: the server is declared ready at the first probe answered with 200
\* or 400 and no probe follows it; and the endpoint is handed over, so that
\* export requests are issued, only after such an answer.
C7_ReadyOnFirstUpAnswer ==
    /\ sawUp => pc \notin WaitPcs
    /\ (pc = "docker_yield" \/ (InDockerScope /\ base # Nothing)) => sawUp
    /\ (InDockerScope /\ (gen # Nothing \/ req # NoReq)) => sawUp

\* an export request issued against the launched container
C7_Witness ==
    /\ InDockerScope /\ sawUp
    /\ pc = "handle" /\ req.posts = 1
    /\ base = <<"http://localhost:", "1", "8", "0", "8", "0">>

(***************************************************************************)
(* Properties of the readiness probe (specification FairWait).             *)
(***************************************************************************)
C8_Bounded ==
    /\ probes * SleepTicks <= TimeoutTicks
    /\ elapsed < TimeoutTicks + SleepTicks + ProbeTimeoutTicks
    /\ ~sawUp => pc # "docker_yield"
    /\ pc = "docker_finally" =>
          /\ elapsed >= TimeoutTicks
          /\ pending = "RuntimeError: Timed out waiting for server"

\* C8: polling always ends; while no probe is answered with 200 or 400 it
\* ends only once the timeout (60 s, 120 half seconds) has elapsed, in the
\* startup-timeout error and never in "ready"; and the probes issued are at
\* most the timeout divided by the polling interval.
C8_PollingTerminates == []C8_Bounded /\ <>(pc \notin WaitPcs)

\* the timeout was raised after as many probes as the bound allows
C8_Witness ==
    /\ pc = "docker_finally" /\ ~sawUp
    /\ probes * SleepTicks = TimeoutTicks

(***************************************************************************)
(* Properties of the batch accounting (specification Spec).                *)
(***************************************************************************)
\* the units whose iteration of the for loop is over
Processed ==
    IF pc \in {"export_png", "post_sent", "export_get", "get_sent", "handle"}
    THEN Len(units) - 1 ELSE Len(units)

C12_Counts ==
    /\ ok + fail = Processed
    /\ Len(failures) = fail
    /\ pc = "summary" => ok + fail = Len(Drain(The(gen).lines, 1, 1))

\* what the iteration of the unit u does to the counters and the list when
\* it ends: a success is counted, or a failure is counted and appended
EndsIteration(u) ==
    \/ /\ The(result).kind = "return"
       /\ ok' = ok + 1 /\ fail' = fail /\ failures' = failures
    \/ /\ ok' = ok /\ fail' = fail + 1
       /\ \E msg \in {MsgOSError, MsgNetwork, MsgPostNoPng}
                    \cup {<<"GET failed: HTTP ", "2", "0", "0">>,
                          <<"GET failed: HTTP ", "5", "0", "0">>} :
             /\ failures' = failures \o <<(<<u.name, msg>>)>>
             /\ The(result).kind = "raise" => msg = The(result).msg

\* C12: at every point succeeded + failed is the number of units processed
\* so far and the failure list has `failed` entries; the list grows only
\* when a unit fails, by the (name, message) pair of that unit at its end,
\* so that it holds the failed units in source order; at the end
\* succeeded + failed is the number of units the tokenizer produces.
C12_Accounting ==
    /\ []C12_Counts
    /\ [][IF pc = "handle"
          THEN EndsIteration(units[Len(units)])
          ELSE ok' = ok /\ fail' = fail /\ failures' = failures]_vars

\* three units, the second failed: two files, succeeded=2, failed=1, the
\* second unit in the list, and a non-zero exit status
C12_Witness ==
    /\ pc = "done" /\ exitStatus = Some(1)
    /\ Len(units) = 3 /\ ok = 2 /\ fail = 1
    /\ Len(failures) = 1 /\ failures[1][1] = units[2].name
    /\ units[2].name \notin {units[1].name, units[3].name}
    /\ DOMAIN files = {OutPath(units[1].name), OutPath(units[3].name)}

(***************************************************************************)
(* Properties of the order of requests and writes (specification Spec).    *)
(***************************************************************************)
\* the requests sent and not yet answered (nor failed)
Outstanding ==
    (req.posts - (IF req.post = Nothing THEN 0 ELSE 1))
    + (req.gets - (IF req.get = Nothing THEN 0 ELSE 1))

C13_OneAtATime ==
    /\ Outstanding \in {0, 1}
    /\ Outstanding = 1 =>
          (ok + fail = Len(units) - 1 /\ pc \in {"post_sent", "get_sent"})
    /\ \A n \in 1..(Len(units) - 1) : units[n].start < units[n + 1].start

\* a request is sent in this step
Sends == req'.posts + req'.gets > req.posts + req.gets

\* C13: at most one request is outstanding at any time; a request for a
\* unit is sent only when no request is outstanding and every earlier unit
\* is done with, its file written when it succeeded; a file is written only
\* for the unit last yielded, with no request outstanding, and units are
\* yielded in source order.
C13_Sequential ==
    /\ []C13_OneAtATime
    /\ [][Sends => (Outstanding = 0 /\ ok + fail = Len(units) - 1)]_vars
    /\ [][ok' = ok + 1 =>
            /\ The(result).kind = "return"
            /\ OutPath(units[Len(units)].name) \in DOMAIN files'
            /\ files'[OutPath(units[Len(units)].name)] = The(result).value]_vars
    /\ [][files' # files =>
            /\ pc = "handle" /\ Outstanding = 0
            /\ ok + fail = Len(units) - 1
            /\ \A path \in DOMAIN files' :
                  path # OutPath(units[Len(units)].name) =>
                      (path \in DOMAIN files /\ files'[path] = files[path])]_vars

\* the request of the third unit is outstanding, the files of the first two
\* are written
C13_Witness ==
    /\ Len(units) = 3 /\ Outstanding = 1 /\ ok = 2
    /\ DOMAIN files = {OutPath(units[1].name), OutPath(units[2].name)}
    /\ units[1].name # units[2].name

(***************************************************************************)
(* Properties of the container lifecycle's errors (specification Spec).    *)
(***************************************************************************)
\* no command of the container tool, probe or export request was issued
NothingIssued ==
    /\ launches = 0 /\ cid = None /\ console = <<>>
    /\ probes = 0 /\ elapsed = 0 /\ ~sawUp
    /\ gen = Nothing /\ units = <<>> /\ req = NoReq /\ files = <<>>
    /\ stops = <<>> /\ stopCode = Nothing

\* C14: when a container launch is requested and the tool is not on the
\* PATH, the run fails with the configuration error, and neither before nor
\* after it is a launch command, a probe, an export request or a stop
\* command issued.
C14_FailFastWithoutDocker ==
    (args.server = Nothing /\ args.docker /\ ~onPath) =>
        /\ NothingIssued
        /\ pc \in {"main", "docker_which", "done"}
        /\ pc = "done" =>
              /\ pending = "RuntimeError: Docker executable not found"
              /\ exitStatus = Some(1)

\* the run has ended in the configuration error
C14_Witness ==
    /\ args.docker /\ ~onPath /\ pc = "done"
    /\ pending = "RuntimeError: Docker executable not found"
    /\ exitStatus = Some(1) /\ launches = 0

\* the startup errors: the launch command failed, the probe timed out
StartupErrors ==
    {"CalledProcessError", "RuntimeError: Timed out waiting for server"}

\* C15 as stated: every startup error, the failed launch as well as the
\* probe timeout, ends the run with no export attempted and with the
\* teardown (the stop command) triggered.
C15_StartupErrorTearsDown ==
    (pc = "done" /\ pending \in StartupErrors) =>
        /\ exitStatus = Some(1)
        /\ gen = Nothing /\ units = <<>> /\ req = NoReq /\ files = <<>>
        /\ Len(stops) = 1

\* a line of the console that reports a failure of the stop command: a
\* line other than the three progress messages
TeardownReported ==
    \E k \in 1..Len(console) :
        console[k] \notin {MsgStarting, MsgUp, MsgStopping}

\* C16 as stated: a failure of the stop command is reported and is not
\* propagated: the run ends with the outcome that left the scope (success,
\* the exit of failed units, or the exception), whatever the stop command
\* returned.
C16_StopFailureReported ==
    (pc = "done" /\ stopCode # Nothing) =>
        /\ pending \in {None, "SystemExit(1)",
                        "RuntimeError: Timed out waiting for server"}
        /\ exitStatus = Some(IF pending = None THEN 0 ELSE 1)
        /\ pending = "SystemExit(1)" <=> (gen # Nothing /\ fail > 0)
        /\ The(stopCode) # 0 => TeardownReported

(***************************************************************************)
(* Properties of the units' texts (specification SpecTok).                 *)
(***************************************************************************)
\* the last line of the unit opened by line s: the first later line that
\* contains the end directive, the last line of the input when none does
LastLineOf(s) ==
    LET ends == {k \in (s + 1)..Len(SourceLines) :
                    Contains(SourceLines[k], END_DIRECTIVE)}
    IN  IF ends = {} THEN Len(SourceLines)
        ELSE CHOOSE k \in ends : \A j \in ends : k <= j

\* the lines s..e of the source, each followed by a newline
RunOfLines(s, e) ==
    Concat([k \in 1..(e - s + 1) |-> SourceLines[s + k - 1] \o <<"\n">>])

\* the lines that belong to the n-th unit
LinesOfUnit(n) == units[n].start..LastLineOf(units[n].start)

\* C17: the text of each unit is the run of source lines from its opening
\* start directive through the first later line containing the end
\* directive, or through the last line of the input when there is none; a
\* start directive met while a unit is open opens no unit; the units' runs
\* are disjoint, and once the input is read the lines of the units are the
\* lines read while a unit was open together with the opening lines.
C17_UnitText ==
    /\ \A n \in 1..Len(units) :
          /\ IsStart(SourceLines[units[n].start])
          /\ ~OpenBefore(units[n].start)
          /\ units[n].text =
                 RunOfLines(units[n].start, LastLineOf(units[n].start))
    /\ \A n \in 1..(Len(units) - 1) :
          LastLineOf(units[n].start) < units[n + 1].start
    /\ pc = "tokdone" =>
          UNION {LinesOfUnit(n) : n \in 1..Len(units)}
              = {k \in 1..Len(SourceLines) :
                    OpenBefore(k) \/ IsStart(SourceLines[k])}

\* an unterminated unit with a start directive among its content, after a
\* line that belongs to no unit
C17_Witness ==
    /\ pc = "tokdone" /\ Len(units) = 1 /\ Len(SourceLines) = 4
    /\ units[1].start = 2
    /\ IsStart(SourceLines[3])
    /\ \A k \in 1..4 : ~Contains(SourceLines[k], END_DIRECTIVE)
    /\ units[1].text = RunOfLines(2, 4)

(***************************************************************************)
(* Properties of the requests of one export_png call (specification Spec). *)
(***************************************************************************)
\* the POST of the current call was answered by a response whose body does
\* not start with the PNG magic
PostAnsweredNoPng ==
    /\ req.post # Nothing
    /\ The(req.post) \in Responses
    /\ ~(Len(The(req.post).content) >= 8
         /\ SubSeq(The(req.post).content, 1, 8)
              = <<137, 80, 78, 71, 13, 10, 26, 10>>)

C18_RequestCounts ==
    /\ req.posts \in {0, 1} /\ req.gets \in {0, 1}
    /\ args.method = "POST" => req.gets = 0
    /\ args.method = "GET" => req.posts = 0
    /\ (args.method = "AUTO" /\ req.gets = 1) =>
          (req.posts = 1 /\ PostAnsweredNoPng)
    /\ pc = "handle" =>
          /\ args.method = "POST" => req.posts = 1
          /\ args.method = "GET" => req.gets = 1
          /\ args.method = "AUTO" => req.posts = 1

\* C18: one export_png call sends at most one POST and at most one GET:
\* under POST one POST and no GET, under GET one GET and no POST, under
\* AUTO the POST first and a GET only once that POST is answered with a
\* body that is no PNG; the counts of a call never go down before the
\* call's result is dealt with.
C18_AtMostOneOfEach ==
    /\ []C18_RequestCounts
    /\ [][(req'.gets > req.gets /\ args.method = "AUTO") =>
            (req.posts = 1 /\ PostAnsweredNoPng)]_vars
    /\ [][req' # req =>
            \/ pc = "handle" /\ req' = NoReq
            \/ req'.posts + req'.gets = req.posts + req.gets + 1
            \/ req'.posts = req.posts /\ req'.gets = req.gets]_vars

\* under AUTO the call ended with one POST, answered without a PNG, and
\* one GET
C18_Witness ==
    /\ args.method = "AUTO" /\ pc = "handle"
    /\ req.posts = 1 /\ req.gets = 1
    /\ PostAnsweredNoPng
    /\ The(result).kind = "return"

(***************************************************************************)
(* Properties of the output directory (specification Spec).                *)
(***************************************************************************)
\* the bodies export_png can return: those that start with the PNG magic
Images == {r.content : r \in {x \in Responses : is_png(x)}}

\* C19 as stated: a file {name}.png exists if and only if some unit of
\* that name was exported successfully, and it holds the image bytes
\* returned for such a unit; a unit that fails creates and modifies no file
\* (a collision overwrites, and is counted as a success, not as a failure).
C19_FileIffExported ==
    /\ Cardinality(DOMAIN files) <= ok
    /\ \A path \in DOMAIN files :
          /\ \E n \in 1..Len(units) : path = OutPath(units[n].name)
          /\ files[path] \in Images
    /\ (pc \in {"summary", "done"} /\ ok > 0) => files # <<>>

(***************************************************************************)
(* Properties of the encoder (specification SpecEnc).                      *)
(***************************************************************************)
\* the 64 symbols 0-9A-Za-z-_ in the order of their indices 0..63
Symbols ==
    <<"0", "1", "2", "3", "4", "5", "6", "7", "8", "9", "A", "B", "C",
     "D", "E", "F", "G", "H", "I", "J", "K", "L", "M", "N", "O", "P",
     "Q", "R", "S", "T", "U", "V", "W", "X", "Y", "Z", "a", "b", "c",
     "d", "e", "f", "g", "h", "i", "j", "k", "l", "m", "n", "o", "p",
     "q", "r", "s", "t", "u", "v", "w", "x", "y", "z", "-", "_">>

\* the 24 bits of the g-th group (g from 0) of data, as a number: three
\* bytes, most significant first, with zero bytes past the end of data
Bits24(data, g) ==
    LET B(j) == IF 3 * g + j <= Len(data) THEN data[3 * g + j] ELSE 0
    IN  B(1) * 65536 + B(2) * 256 + B(3)

\* C20: for a byte sequence of length n the encoder yields 4*ceil(n/3)
\* symbols of the 64-symbol alphabet; the four symbols of each group of
\* three bytes (the last group padded with zero bytes) are those indexed by
\* the four successive 6-bit fields of its 24 bits, most significant
\* first; the empty sequence yields the empty string.
C20_EncodeBytes ==
    pc = "encdone" =>
        LET n      == Len(enc.data)
            groups == (n + 2) \div 3
        IN  /\ Len(enc.out) = 4 * groups
            /\ n = 0 => enc.out = <<>>
            /\ \A k \in 1..Len(enc.out) :
                  \E x \in 1..64 : enc.out[k] = Symbols[x]
            /\ \A g \in 0..(groups - 1) :
                  LET v == Bits24(enc.data, g)
                  IN  /\ enc.out[4 * g + 1] = Symbols[(v \div 262144) + 1]
                      /\ enc.out[4 * g + 2] = Symbols[((v \div 4096) % 64) + 1]
                      /\ enc.out[4 * g + 3] = Symbols[((v \div 64) % 64) + 1]
                      /\ enc.out[4 * g + 4] = Symbols[(v % 64) + 1]

\* four bytes, so a full group and a group padded with two zero bytes
C20_Witness ==
    /\ pc = "encdone"
    /\ enc.data = <<255, 0, 64, 63>>
    /\ enc.out = <<"_", "m", "1", "0", "F", "m", "0", "0">>

====
